---- MODULE Spec2Model ----
(***************************************************************************)
(* Census-App: the normalization / validation pipeline of                  *)
(* amplify_census_input.py and the carrier projection of                   *)
(* export_aetna_afa.py.                                                    *)
(*                                                                         *)
(* Text.  A Python str is a sequence of lexemes.  A lexeme is either one   *)
(* character that the code looks at on its own (a blank, "+", "&", "-",    *)
(* ",", ".", ":", "(", ")", a digit) or a whole run of letters (a word).   *)
(* The empty str is << >>.  Case mapping is a table over the words.        *)
(*                                                                         *)
(* Cells.  A raw cell of the DataFrame is [t, s]: t is the Python type     *)
(* ("nan" for NaN/None, "str", "int", "float", "date") and s the text      *)
(* that carries its value (for a float the digits of its integral value).  *)
(***************************************************************************)
EXTENDS Integers, Sequences, FiniteSets, TLC

VARIABLES pc, arg, ret, raw, mapping, df, split_warnings, status_issues, issues,
          med, total_employees, total_enrolled, out

vars == <<pc, arg, ret, raw, mapping, df, split_warnings, status_issues, issues,
          med, total_employees, total_enrolled, out>>

pipeline_vars == <<raw, mapping, df, split_warnings, status_issues, issues,
                   med, total_employees, total_enrolled, out>>

(***************************************************************************)
(* Bounds of the model.                                                    *)
(***************************************************************************)
MaxRows == 3

MaxZipLen == 6

MaxCovLen == 5

MaxNameLen == 5

MaxMemberLen == 3

(***************************************************************************)
(* Generic sequence helpers.                                               *)
(***************************************************************************)
SetMin(S) == CHOOSE m \in S : \A n \in S : m <= n

SetMax(S) == CHOOSE m \in S : \A n \in S : m >= n

SeqsUpTo(A, n) == UNION {[1..k -> A] : k \in 0..n}

Contains(s, c) == \E i \in 1..Len(s) : s[i] = c

InList(lst, t) == \E i \in 1..Len(lst) : lst[i] = t

StartsWith(s, p) == Len(s) >= Len(p) /\ SubSeq(s, 1, Len(p)) = p

(***************************************************************************)
(* Python str primitives on lexeme sequences.                              *)
(***************************************************************************)
Whitespace == {" ", "\t", "\n", "\r"}

DigitChars == {"0", "1", "2", "3", "4", "5", "6", "7", "8", "9"}

IsSpace(c) == c \in Whitespace

IsDigit(c) == c \in DigitChars

\* str.strip(): drop leading and trailing whitespace
Strip(s) ==
    LET keep == {i \in 1..Len(s) : ~IsSpace(s[i])}
    IN  IF keep = {} THEN << >> ELSE SubSeq(s, SetMin(keep), SetMax(keep))

\* str.strip(chars) for a one-character argument
StripChar(s, c) ==
    LET keep == {i \in 1..Len(s) : s[i] # c}
    IN  IF keep = {} THEN << >> ELSE SubSeq(s, SetMin(keep), SetMax(keep))

\* str.upper() / str.lower(): the case table of the words the inputs use
UpperTab ==
    ("ee" :> "EE") @@ ("Ee" :> "EE") @@ ("family" :> "FAMILY") @@ ("Family" :> "FAMILY")
    @@ ("fam" :> "FAM") @@ ("wo" :> "WO") @@ ("waive" :> "WAIVE") @@ ("Waive" :> "WAIVE")
    @@ ("e" :> "E") @@ ("child" :> "CHILD") @@ ("Child" :> "CHILD") @@ ("sp" :> "SP")
    @@ ("Spouse" :> "SPOUSE") @@ ("spouse" :> "SPOUSE") @@ ("Manager" :> "MANAGER")
    @@ ("Employee" :> "EMPLOYEE") @@ ("Active" :> "ACTIVE") @@ ("active" :> "ACTIVE")
    @@ ("Cobra" :> "COBRA") @@ ("cobra" :> "COBRA") @@ ("Retired" :> "RETIRED")
    @@ ("retired" :> "RETIRED") @@ ("Jr" :> "JR") @@ ("jr" :> "JR") @@ ("Sr" :> "SR")
    @@ ("iii" :> "III") @@ ("Ann" :> "ANN") @@ ("Lee" :> "LEE") @@ ("Smith" :> "SMITH")
    @@ ("John" :> "JOHN") @@ ("Michael" :> "MICHAEL") @@ ("Madonna" :> "MADONNA")
    @@ ("Tom" :> "TOM") @@ ("Bob" :> "BOB") @@ ("Roe" :> "ROE") @@ ("Male" :> "MALE")
    @@ ("male" :> "MALE") @@ ("Female" :> "FEMALE") @@ ("f" :> "F") @@ ("m" :> "M")
    @@ ("x" :> "X") @@ ("Domestic" :> "DOMESTIC") @@ ("Partner" :> "PARTNER")
    @@ ("partner" :> "PARTNER") @@ ("kid" :> "KID")

LowerTab ==
    ("First" :> "first") @@ ("Name" :> "name") @@ ("Last" :> "last") @@ ("Full" :> "full")
    @@ ("Employee" :> "employee") @@ ("Gender" :> "gender") @@ ("Sex" :> "sex")
    @@ ("DOB" :> "dob") @@ ("Date" :> "date") @@ ("Birth" :> "birth") @@ ("Home" :> "home")
    @@ ("Zip" :> "zip") @@ ("ZIP" :> "zip") @@ ("Code" :> "code") @@ ("Work" :> "work")
    @@ ("Member" :> "member") @@ ("Type" :> "type") @@ ("Relationship" :> "relationship")
    @@ ("Coverage" :> "coverage") @@ ("Tier" :> "tier") @@ ("Level" :> "level")
    @@ ("Status" :> "status") @@ ("Employment" :> "employment") @@ ("Medical" :> "medical")
    @@ ("Plan" :> "plan") @@ ("Current" :> "current") @@ ("Foo" :> "foo") @@ ("Bar" :> "bar")
    @@ ("M" :> "m") @@ ("F" :> "f") @@ ("Of" :> "of") @@ ("Notes" :> "notes")

UpperLex(c) == IF c \in DOMAIN UpperTab THEN UpperTab[c] ELSE c

LowerLex(c) == IF c \in DOMAIN LowerTab THEN LowerTab[c] ELSE c

Upper(s) == [i \in 1..Len(s) |-> UpperLex(s[i])]

Lower(s) == [i \in 1..Len(s) |-> LowerLex(s[i])]

\* str.split(): the whitespace-delimited tokens, none of them empty
RECURSIVE SplitWs(_)
SplitWs(s) ==
    IF s = << >> THEN << >>
    ELSE IF IsSpace(s[1]) THEN SplitWs(Tail(s))
    ELSE LET stops == {i \in 1..Len(s) : IsSpace(s[i])}
             n == IF stops = {} THEN Len(s) ELSE SetMin(stops) - 1
         IN  <<SubSeq(s, 1, n)>> \o SplitWs(SubSeq(s, n + 1, Len(s)))

\* the part of s before / after the first occurrence of c (c occurs in s)
BeforeFirst(s, c) == SubSeq(s, 1, SetMin({i \in 1..Len(s) : s[i] = c}) - 1)

AfterFirst(s, c) == SubSeq(s, SetMin({i \in 1..Len(s) : s[i] = c}) + 1, Len(s))

\* sep.join(parts)
RECURSIVE Join(_, _)
Join(parts, sep) ==
    IF parts = << >> THEN << >>
    ELSE IF Len(parts) = 1 THEN parts[1]
    ELSE parts[1] \o sep \o Join(Tail(parts), sep)

\* str.zfill(n): left-pad with "0"
RECURSIVE Zfill(_, _)
Zfill(s, n) == IF Len(s) >= n THEN s ELSE Zfill(<<"0">> \o s, n)

\* s[:n]
Prefix(s, n) == SubSeq(s, 1, IF Len(s) < n THEN Len(s) ELSE n)

\* number of leading whitespace lexemes
LeadingWs(s) ==
    LET non == {i \in 1..Len(s) : ~IsSpace(s[i])}
    IN  IF non = {} THEN Len(s) ELSE SetMin(non) - 1

(***************************************************************************)
(* Raw cells.                                                              *)
(***************************************************************************)
NaN == [t |-> "nan", s |-> << >>]

StrCell(s) == [t |-> "str", s |-> s]

IntCell(digits) == [t |-> "int", s |-> digits]

FloatCell(digits) == [t |-> "float", s |-> digits]

DateCell(y, m, d) == [t |-> "date", s |-> <<y, "-", m, "-", d>>]

\* pd.isna(val)
isna(val) == val.t = "nan"

\* str(val): an int prints its digits, a float with an integral value prints
\* them followed by ".0", a Timestamp prints its ISO date
PyStr(val) ==
    CASE val.t = "float" -> val.s \o <<".", "0">>
      [] val.t = "nan" -> <<"nan">>
      [] OTHER -> val.s

(***************************************************************************)
(* _norm_zip  (amplify_census_input.py 146-153)                            *)
(***************************************************************************)
_norm_zip(val) ==
    IF isna(val) THEN << >>
    ELSE LET s0 == Strip(PyStr(val))
             s1 == IF Contains(s0, "-") THEN BeforeFirst(s0, "-") ELSE s0
             s2 == SelectSeq(s1, IsDigit)
         IN  IF s2 # << >> THEN Prefix(Zfill(s2, 5), 5) ELSE << >>

(***************************************************************************)
(* _norm_coverage  (amplify_census_input.py 186-204)                       *)
(***************************************************************************)
Sp(words) == Join([i \in 1..Len(words) |-> <<words[i]>>], <<" ">>)

_COV_ALIASES ==
    { <<<<"E">>, <<"EE">>>>, <<<<"EO">>, <<"EE">>>>, <<<<"EMPLOYEE">>, <<"EE">>>>,
      <<Sp(<<"EMPLOYEE", "ONLY">>), <<"EE">>>>, <<<<"EEONLY">>, <<"EE">>>>,
      <<Sp(<<"EE", "ONLY">>), <<"EE">>>>, <<<<"EE">>, <<"EE">>>>,
      <<<<"ES">>, <<"ES">>>>, <<Sp(<<"EMPLOYEE", "+", "SPOUSE">>), <<"ES">>>>,
      <<Sp(<<"EE", "+", "SPOUSE">>), <<"ES">>>>, <<<<"EESPONLY">>, <<"ES">>>>,
      <<Sp(<<"EES", "PONLY">>), <<"ES">>>>,
      <<<<"EC">>, <<"EC">>>>, <<Sp(<<"EMPLOYEE", "+", "CHILD">>), <<"EC">>>>,
      <<Sp(<<"EMPLOYEE", "+", "CHILDREN">>), <<"EC">>>>,
      <<Sp(<<"EE", "+", "CHILD">>), <<"EC">>>>, <<Sp(<<"EE", "+", "CHILDREN">>), <<"EC">>>>,
      <<<<"EECHREN">>, <<"EC">>>>,
      <<<<"F">>, <<"FAM">>>>, <<<<"FAM">>, <<"FAM">>>>, <<<<"FAMILY">>, <<"FAM">>>>,
      <<Sp(<<"EE", "+", "FAMILY">>), <<"FAM">>>>, <<<<"EE", "&", "FAMILY">>, <<"FAM">>>>,
      <<<<"WO">>, <<"WO">>>>, <<<<"WAIVE">>, <<"WO">>>>, <<<<"WAIVED">>, <<"WO">>>>,
      <<<<"WAV">>, <<"WO">>>>, <<<<"NONE">>, <<"WO">>>>,
      <<Sp(<<"NO", "COVERAGE">>), <<"WO">>>> }

COVERAGE_CODES == {<<"EE">>, <<"EC">>, <<"ES">>, <<"FAM">>, <<"WO">>}

\* dict.get(key, default) on a table of <<key, value>> pairs
DictGet(table, key, default) ==
    IF \E e \in table : e[1] = key
    THEN (CHOOSE e \in table : e[1] = key)[2]
    ELSE default

\* re.sub(r"\s*\+\s*", " + ", s): leftmost, non-overlapping matches
RECURSIVE NormalizePlusSpacing(_)
NormalizePlusSpacing(s) ==
    IF s = << >> THEN << >>
    ELSE LET k == LeadingWs(s)
         IN  IF k < Len(s) /\ s[k + 1] = "+"
             THEN LET rest == SubSeq(s, k + 2, Len(s))
                  IN  <<" ", "+", " ">>
                      \o NormalizePlusSpacing(SubSeq(rest, LeadingWs(rest) + 1, Len(rest)))
             ELSE <<s[1]>> \o NormalizePlusSpacing(Tail(s))

\* s.replace("&", "+")
ReplaceAmp(s) == [i \in 1..Len(s) |-> IF s[i] = "&" THEN "+" ELSE s[i]]

\* Variant: a value that is not an alias is kept as it is.
_norm_coverage_keep_unknown(val) ==
    IF isna(val) \/ Strip(PyStr(val)) = << >> THEN << >>
    ELSE LET s0 == Upper(Strip(PyStr(val)))
             s1 == NormalizePlusSpacing(s0)
             s2 == ReplaceAmp(s1)
         IN  DictGet(_COV_ALIASES, s2, s2)

_norm_coverage(val) ==
    IF isna(val) \/ Strip(PyStr(val)) = << >> THEN << >>
    ELSE LET s0 == Upper(Strip(PyStr(val)))
             s1 == NormalizePlusSpacing(s0)
             s2 == ReplaceAmp(s1)
         IN  DictGet(_COV_ALIASES, s2, IF s2 \in COVERAGE_CODES THEN s2 ELSE << >>)

(***************************************************************************)
(* _split_full_name  (amplify_census_input.py 104-141)                     *)
(***************************************************************************)
_SUFFIXES == {<<"JR">>, <<"SR">>, <<"II">>, <<"III">>, <<"IV">>, <<"V">>}

WARN_EMPTY_FIRST == <<"Full Name split yielded empty first name">>

WARN_SINGLE_TOKEN == <<"Full Name has single token; treated as last name">>

WARN_SUFFIX_ONLY == <<"Name missing core last name; suffix only">>

\* t.upper().strip(".") in _SUFFIXES
IsSuffixToken(t) == StripChar(Upper(t), ".") \in _SUFFIXES

\* [t for t in tail if t.upper().strip(".") in _SUFFIXES]
SuffixTokens(tail) == SelectSeq(tail, IsSuffixToken)

\* [t for t in tail if t not in suffix]
NotInSuffix(tail, suffix) ==
    LET Keep(t) == ~InList(suffix, t) IN SelectSeq(tail, Keep)

\* The mutant of _split_full_name's ordering: suffix tokens before the others
LastNameParts_suffix_first(lead, others, suffix) == lead \o suffix \o others

\* the token order of the last name: leading part, middle/core tokens, suffix tokens
LastNameParts(lead, others, suffix) == lead \o others \o suffix

\* returns <<first, last, warnings>>
_split_full_name(name) ==
    LET s == Strip(name)
    IN  IF s = << >> THEN << << >>, << >>, << >> >>
        ELSE IF Contains(s, ",")
        THEN LET last == Strip(BeforeFirst(s, ","))
                 rest == Strip(AfterFirst(s, ","))
                 tail == SplitWs(rest)
             IN  IF tail = << >> THEN << << >>, last, <<WARN_EMPTY_FIRST>> >>
                 ELSE LET first == tail[1]
                          suffix == SuffixTokens(Tail(tail))
                          middle == NotInSuffix(Tail(tail), suffix)
                          last_full == IF middle # << >> \/ suffix # << >>
                                       THEN Join(LastNameParts(<<last>>, middle, suffix), <<" ">>)
                                       ELSE last
                      IN  <<first, last_full, << >> >>
        ELSE LET toks == SplitWs(s)
             IN  IF Len(toks) = 1 THEN << << >>, toks[1], <<WARN_SINGLE_TOKEN>> >>
                 ELSE LET first == toks[1]
                          tail == Tail(toks)
                          suffix == SuffixTokens(tail)
                          core == NotInSuffix(tail, suffix)
                      IN  IF core = << >>
                          THEN <<first, Join(suffix, <<" ">>), <<WARN_SUFFIX_ONLY>> >>
                          ELSE <<first, Join(LastNameParts(<< >>, core, suffix), <<" ">>), << >> >>

(***************************************************************************)
(* Inputs of the field-normalizer specifications.                          *)
(***************************************************************************)
ZipAlphabet == {"0", "7", "-", " "}

ZipDigitsNoLeadingZero == {d \in SeqsUpTo({"0", "7"}, MaxZipLen) : d # << >> /\ d[1] # "0"}

ZipInputs ==
    {NaN}
    \cup {StrCell(s) : s \in SeqsUpTo(ZipAlphabet, MaxZipLen)}
    \cup {StrCell(<<"1", "2", "3", "4", "5", "-", "6", "7", "8", "9">>),
          StrCell(<<"x", "1", "2", "x">>)}
    \cup {IntCell(d) : d \in ZipDigitsNoLeadingZero \cup {<<"0">>}}
    \cup {FloatCell(d) : d \in ZipDigitsNoLeadingZero \cup {<<"0">>}}

CovAlphabet == {"EE", "family", " ", "+", "&"}

CovInputs ==
    {NaN}
    \cup {StrCell(s) : s \in SeqsUpTo(CovAlphabet, MaxCovLen)}
    \cup {StrCell(<<"fam">>), StrCell(<<"wo">>), StrCell(<<"x">>),
          StrCell(Sp(<<"Employee", "+", "Spouse">>))}

NameAlphabet == {"Ann", "Lee", "Jr", ".", ",", " "}

NameInputs ==
    SeqsUpTo(NameAlphabet, MaxNameLen)
    \cup {<<"Smith", ",", " ", "John", " ", "Michael", " ", "Jr">>, <<"Madonna">>,
          <<"Ann", " ", "Lee", " ", "iii", " ", "Sr", ".">>,
          <<"Lee", ",", "Ann", " ", "Jr", " ", "Lee">>}

MemberAlphabet == {"child", "Spouse", "Domestic", "partner", "e", "Manager", " "}

MemberInputs ==
    {NaN, IntCell(<<"1">>), FloatCell(<<"2">>)}
    \cup {StrCell(s) : s \in SeqsUpTo(MemberAlphabet, MaxMemberLen)}
    \cup {StrCell(<<k>>) : k \in {"EE", "E", "SUB", "SUBSCRIBER", "Employee", "SP", "S",
                                  "DP", "C", "CH", "CHILDREN", "kid", "DEPENDENT"}}

(***************************************************************************)
(* The other field normalizers  (amplify_census_input.py 155-214)          *)
(***************************************************************************)
NaT == << >>

\* pd.to_datetime(val, errors="coerce"): <<y, m, d>> or NaT.  A Timestamp
\* cell and an ISO text parse; a bare number counts nanoseconds from the
\* epoch; other text is coerced to NaT.
to_datetime(val) ==
    LET s == Strip(val.s)
    IN  CASE val.t \in {"date", "str"} ->
                 IF Len(s) = 5 /\ s[2] = "-" /\ s[4] = "-"
                    /\ \A i \in {1, 3, 5} : s[i] \notin {"-", " ", "n/a"}
                 THEN <<s[1], s[3], s[5]>> ELSE NaT
          [] val.t \in {"int", "float"} -> <<"1970", "01", "01">>
          [] OTHER -> NaT

\* dt.strftime("%m/%d/%Y")
strftime_mdy(dt) == <<dt[2], "/", dt[3], "/", dt[1]>>

_norm_dob(val) ==
    IF isna(val) \/ Strip(PyStr(val)) = << >> THEN << >>
    ELSE LET dt == to_datetime(val)
         IN  IF dt = NaT THEN << >> ELSE strftime_mdy(dt)

_norm_gender(val) ==
    IF isna(val) \/ Strip(PyStr(val)) = << >> THEN << >>
    ELSE LET s == Upper(Strip(PyStr(val)))
         IN  IF s \in {<<"M">>, <<"MALE">>} THEN <<"M">>
             ELSE IF s \in {<<"F">>, <<"FEMALE">>} THEN <<"F">>
             ELSE << >>

_MEMBER_ALIASES ==
    { <<<<"EE">>, <<"EE">>>>, <<<<"E">>, <<"EE">>>>, <<<<"SUB">>, <<"EE">>>>,
      <<<<"SUBSCRIBER">>, <<"EE">>>>, <<<<"EMPLOYEE">>, <<"EE">>>>,
      <<<<"SP">>, <<"SP">>>>, <<<<"S">>, <<"SP">>>>, <<<<"SPOUSE">>, <<"SP">>>>,
      <<Sp(<<"DOMESTIC", "PARTNER">>), <<"SP">>>>, <<<<"DP">>, <<"SP">>>>,
      <<<<"PARTNER">>, <<"SP">>>>,
      <<<<"C">>, <<"CH">>>>, <<<<"CH">>, <<"CH">>>>, <<<<"CHILD">>, <<"CH">>>>,
      <<<<"CHILDREN">>, <<"CH">>>>, <<<<"KID">>, <<"CH">>>>, <<<<"DEPENDENT">>, <<"CH">>>> }

\* Variant: an unknown value is left blank instead of defaulting to "EE".
_norm_member_blank_unknown(val) ==
    IF isna(val) \/ Strip(PyStr(val)) = << >> THEN << >>
    ELSE LET s == Upper(Strip(PyStr(val)))
         IN  DictGet(_MEMBER_ALIASES, s, << >>)

_norm_member(val) ==
    IF isna(val) \/ Strip(PyStr(val)) = << >> THEN << >>
    ELSE LET s == Upper(Strip(PyStr(val)))
         IN  DictGet(_MEMBER_ALIASES, s, <<"EE">>)

_ALLOWED_STATUS == { <<<<"ACTIVE">>, <<"Active">>>>, <<<<"COBRA">>, <<"Cobra">>>> }

\* f"Ignored non-supported Work Status '{val}' (only Active/Cobra kept)"
IgnoredStatusMsg(val) ==
    <<"Ignored non-supported Work Status '">> \o PyStr(val) \o <<"' (only Active/Cobra kept)">>

\* The mutant of _norm_status: blank and whitespace-only cells are not let through
_norm_status_warn_blank(val) ==
    IF isna(val) THEN << << >>, << >> >>
    ELSE LET s == Upper(Strip(PyStr(val)))
         IN  IF \E e \in _ALLOWED_STATUS : e[1] = s
             THEN <<DictGet(_ALLOWED_STATUS, s, << >>), << >> >>
             ELSE << << >>, IgnoredStatusMsg(val) >>

\* returns <<normalized value, warning message>>
_norm_status(val) ==
    IF isna(val) \/ Strip(PyStr(val)) = << >> THEN << << >>, << >> >>
    ELSE LET s == Upper(Strip(PyStr(val)))
         IN  IF \E e \in _ALLOWED_STATUS : e[1] = s
             THEN <<DictGet(_ALLOWED_STATUS, s, << >>), << >> >>
             ELSE << << >>, IgnoredStatusMsg(val) >>

\* Series.fillna("").astype(str).str.strip() on one cell
norm_text(val) == IF isna(val) THEN << >> ELSE Strip(PyStr(val))

(***************************************************************************)
(* Header resolution  (amplify_census_input.py 14-99, 219-247)             *)
(***************************************************************************)
STANDARD_COLS ==
    << "First Name", "Last Name", "Gender", "Date of Birth", "Home Zip Code",
       "Member Type", "Coverage Tier", "Work Status", "Work Zip", "Current Medical Plan" >>

ALIASES ==
    { <<Sp(<<"first", "name">>), "First Name">>, <<<<"firstname">>, "First Name">>,
      <<<<"fname">>, "First Name">>,
      <<Sp(<<"last", "name">>), "Last Name">>, <<<<"lastname">>, "Last Name">>,
      <<<<"lname">>, "Last Name">>, <<<<"surname">>, "Last Name">>,
      <<Sp(<<"full", "name">>), "Full Name">>, <<Sp(<<"employee", "name">>), "Full Name">>,
      <<<<"name">>, "Full Name">>,
      <<<<"gender">>, "Gender">>, <<<<"sex">>, "Gender">>,
      <<<<"dob">>, "Date of Birth">>, <<Sp(<<"date", "of", "birth">>), "Date of Birth">>,
      <<Sp(<<"birth", "date">>), "Date of Birth">>,
      <<Sp(<<"home", "zip", "code">>), "Home Zip Code">>, <<Sp(<<"home", "zip">>), "Home Zip Code">>,
      <<<<"zip">>, "Home Zip Code">>, <<Sp(<<"zip", "code">>), "Home Zip Code">>,
      <<<<"zipcode">>, "Home Zip Code">>, <<Sp(<<"postal", "code">>), "Home Zip Code">>,
      <<Sp(<<"work", "zip">>), "Work Zip">>, <<Sp(<<"work", "zip", "code">>), "Work Zip">>,
      <<Sp(<<"member", "type">>), "Member Type">>, <<<<"member">>, "Member Type">>,
      <<<<"relationship">>, "Member Type">>, <<<<"subscriber/dependent">>, "Member Type">>,
      <<Sp(<<"coverage", "tier">>), "Coverage Tier">>, <<<<"coverage">>, "Coverage Tier">>,
      <<Sp(<<"medical", "tier">>), "Coverage Tier">>,
      <<Sp(<<"work", "status">>), "Work Status">>, <<Sp(<<"employment", "status">>), "Work Status">>,
      <<Sp(<<"subscriber", "employment", "status">>), "Work Status">>,
      <<Sp(<<"current", "medical", "plan">>), "Current Medical Plan">>,
      <<Sp(<<"medical", "plan">>), "Current Medical Plan">> }

LineBreaks == {"\r", "\n", "\t"}

\* re.sub(r"[\r\n\t]+", " ", s)
RECURSIVE CollapseBreaks(_)
CollapseBreaks(s) ==
    IF s = << >> THEN << >>
    ELSE IF s[1] \in LineBreaks
    THEN LET non == {i \in 1..Len(s) : s[i] \notin LineBreaks}
             k == IF non = {} THEN Len(s) ELSE SetMin(non) - 1
         IN  <<" ">> \o CollapseBreaks(SubSeq(s, k + 1, Len(s)))
    ELSE <<s[1]>> \o CollapseBreaks(Tail(s))

\* re.sub(r"\(.*?\)", "", s) and re.sub(r"\[.*?\]", "", s)
RECURSIVE DropBracketed(_, _, _)
DropBracketed(s, open, close) ==
    IF s = << >> THEN << >>
    ELSE LET closes == {j \in 2..Len(s) : s[j] = close /\ \A i \in 2..j : s[i] # "\n"}
         IN  IF s[1] = open /\ closes # {}
             THEN DropBracketed(SubSeq(s, SetMin(closes) + 1, Len(s)), open, close)
             ELSE <<s[1]>> \o DropBracketed(Tail(s), open, close)

\* re.sub(r"\s{2,}", " ", s)
RECURSIVE CollapseSpaces(_)
CollapseSpaces(s) ==
    IF s = << >> THEN << >>
    ELSE LET k == LeadingWs(s)
         IN  IF k >= 2 THEN <<" ">> \o CollapseSpaces(SubSeq(s, k + 1, Len(s)))
             ELSE <<s[1]>> \o CollapseSpaces(Tail(s))

\* re.sub(r"\s*:\s*$", "", s)
DropTrailingColon(s) ==
    LET t == {i \in 1..Len(s) : s[i] = ":" /\ \A j \in (i + 1)..Len(s) : IsSpace(s[j])}
    IN  IF t = {} THEN s
        ELSE LET i == SetMin(t)
                 before == {j \in 1..(i - 1) : ~IsSpace(s[j])}
             IN  IF before = {} THEN << >> ELSE SubSeq(s, 1, SetMax(before))

\* unicodedata.normalize("NFKC", s) leaves the lexemes of the model as they are
_normalize_header_label(label) ==
    LET s1 == Strip(label)
        s2 == CollapseBreaks(s1)
        s3 == DropBracketed(s2, "(", ")")
        s4 == DropBracketed(s3, "[", "]")
        s5 == CollapseSpaces(s4)
        s6 == DropTrailingColon(s5)
    IN  Lower(Strip(s6))

NotMapped == "(unmapped)"

\* the standard name one raw label resolves to, or NotMapped
PickOne(label) ==
    LET key == _normalize_header_label(label)
    IN  IF \E e \in ALIASES : e[1] = key THEN DictGet(ALIASES, key, NotMapped)
        ELSE IF StartsWith(key, <<"gender">>) THEN "Gender"
        ELSE IF key \in {<<"dob">>, Sp(<<"date", "of", "birth">>), Sp(<<"birth", "date">>)}
             THEN "Date of Birth"
        ELSE IF StartsWith(key, Sp(<<"home", "zip">>)) THEN "Home Zip Code"
        ELSE IF StartsWith(key, Sp(<<"work", "zip">>)) THEN "Work Zip"
        ELSE IF StartsWith(key, <<"coverage">>) THEN "Coverage Tier"
        ELSE IF StartsWith(key, Sp(<<"employment", "status">>))
                \/ StartsWith(key, Sp(<<"work", "status">>)) THEN "Work Status"
        ELSE IF key \in {<<"fullname">>, Sp(<<"full", "name">>), Sp(<<"employee", "name">>),
                         <<"name">>} THEN "Full Name"
        ELSE NotMapped

\* the dict source column -> standard name, in column order: a sequence of
\* <<position of the source column, standard name>>
_pick_cols(columns) ==
    LET Hit(c) == PickOne(columns[c]) # NotMapped
        RECURSIVE Walk(_)
        Walk(c) == IF c > Len(columns) THEN << >>
                   ELSE (IF Hit(c) THEN <<<<c, PickOne(columns[c])>>>> ELSE << >>) \o Walk(c + 1)
    IN  Walk(1)

(***************************************************************************)
(* DataFrames: [columns, index, data], data[c] the column's cells in row   *)
(* order.  index holds the row labels.                                     *)
(***************************************************************************)
EmptyFrame == [columns |-> << >>, index |-> << >>, data |-> [c \in {} |-> << >>]]

\* the default index of a frame read by pd.read_excel, and of
\* df.iloc[k:].reset_index(drop=True): the labels 0 .. n-1
RangeIndex(n) == [i \in 1..n |-> i - 1]

NRows(frame) == Len(frame.index)

HasCol(frame, c) == InList(frame.columns, c)

\* df[c] = <column>: sets the cells of c; a new name goes last.  Giving a
\* frame that has no columns yet a Series gives it the Series' index.
SetColumn(frame, c, cells, idx) ==
    [ columns |-> IF HasCol(frame, c) THEN frame.columns ELSE Append(frame.columns, c),
      index |-> IF frame.columns = << >> THEN idx ELSE frame.index,
      data |-> [k \in DOMAIN frame.data \cup {c} |-> IF k = c THEN cells ELSE frame.data[k]] ]

\* df[c] = "" : the scalar fills one cell per row of the frame's index
SetScalar(frame, c, val) ==
    SetColumn(frame, c, [i \in 1..NRows(frame) |-> val], frame.index)

\* df.drop(columns=[c])
DropColumn(frame, c) ==
    [ columns |-> SelectSeq(frame.columns, LAMBDA k : k # c),
      index |-> frame.index,
      data |-> [k \in DOMAIN frame.data \ {c} |-> frame.data[k]] ]

\* the position of the row labelled idx (df.at[idx, ...])
PosOf(index, idx) == SetMin({p \in 1..Len(index) : index[p] = idx})

(***************************************************************************)
(* Raw tables the pipeline is run on: a layout (the header row) and up to  *)
(* MaxRows rows, each one of the row profiles below.                       *)
(***************************************************************************)
W(word) == StrCell(<<word>>)

RowProfiles ==
    { \* a subscriber with family coverage, nothing wrong
      [ fn |-> W("Ann"), ln |-> W("Lee"), full |-> StrCell(<<"Lee", ",", " ", "Ann">>),
        gender |-> W("f"), dob |-> DateCell("1980", "01", "02"),
        zip |-> IntCell(<<"7", "0", "0", "1">>), mt |-> W("EE"), cov |-> W("family"),
        ws |-> W("Active"), wzip |-> StrCell(<<"1", "2", "3", "4", "5", "-", "6", "7", "8", "9">>),
        plan |-> W("PPO"), other |-> W("x") ],
      \* a child, nothing wrong but a Work Status that is not kept
      [ fn |-> W("Tom"), ln |-> W("Lee"), full |-> StrCell(<<"Tom", " ", "Lee", " ", "Jr">>),
        gender |-> W("male"), dob |-> NaN, zip |-> NaN, mt |-> W("child"), cov |-> NaN,
        ws |-> W("Retired"), wzip |-> NaN, plan |-> NaN, other |-> NaN ],
      \* a waived subscriber (a job title as Member Type), no last name, DOB or ZIP
      [ fn |-> W("Bob"), ln |-> NaN, full |-> W("Madonna"),
        gender |-> NaN, dob |-> W("n/a"), zip |-> NaN, mt |-> W("Manager"), cov |-> W("waive"),
        ws |-> W("retired"), wzip |-> NaN, plan |-> NaN, other |-> NaN ],
      \* a spouse with a Work Status, no first name
      [ fn |-> NaN, ln |-> W("Roe"), full |-> StrCell(<<"Roe", ",">>),
        gender |-> W("x"), dob |-> StrCell(<<"1975", "-", "12", "-", "31">>),
        zip |-> FloatCell(<<"7", "0", "0", "1">>), mt |-> W("Spouse"),
        cov |-> StrCell(<<"EE", " ", "&", " ", "family">>),
        ws |-> StrCell(<<" ", "cobra", " ">>), wzip |-> NaN, plan |-> NaN, other |-> NaN ],
      \* a blank row
      [ fn |-> NaN, ln |-> NaN, full |-> NaN, gender |-> NaN, dob |-> NaN, zip |-> NaN,
        mt |-> NaN, cov |-> NaN, ws |-> NaN, wzip |-> NaN, plan |-> NaN, other |-> NaN ],
      \* a subscriber whose Coverage Tier does not resolve, blank Work Status
      [ fn |-> StrCell(<<" ", "Ann", " ">>), ln |-> W("Smith"),
        full |-> StrCell(<<"Ann", " ", "Jr", ".">>),
        gender |-> W("M"), dob |-> DateCell("1990", "06", "15"),
        zip |-> StrCell(<<"1", "2", "3", "4", "5", "-", "6", "7", "8", "9">>), mt |-> W("e"),
        cov |-> StrCell(<<"EE", "&", "family">>), ws |-> StrCell(<<" ", " ">>),
        wzip |-> IntCell(<<"7">>), plan |-> NaN, other |-> NaN ] }

\* a layout: the header labels, each with the profile field its column holds
Layouts ==
    { \* separate name columns, noisy labels, one column nothing resolves
      << <<Sp(<<"First", "Name">>), "fn">>, <<Sp(<<"Last", "Name">>), "ln">>,
         <<<<"Gender", "\n", "(", "M", " ", "or", " ", "F", ")">>, "gender">>,
         <<<<"DOB", ":">>, "dob">>, <<<<"Zip">>, "zip">>,
         <<Sp(<<"Member", "Type">>), "mt">>, <<Sp(<<"Coverage", "Level">>), "cov">>,
         <<Sp(<<"Work", "Status">>), "ws">>, <<Sp(<<"Work", "Zip">>), "wzip">>,
         <<Sp(<<"Medical", "Plan">>), "plan">>, <<<<"Notes">>, "other">> >>,
      \* one full-name column
      << <<Sp(<<"Employee", "Name">>), "full">>, <<<<"Relationship">>, "mt">>,
         <<Sp(<<"Coverage", "Tier">>), "cov">>, <<Sp(<<"Date", "of", "Birth">>), "dob">>,
         <<Sp(<<"Home", "Zip">>), "zip">>, <<Sp(<<"Employment", "Status">>), "ws">> >>,
      \* no label resolves
      << <<<<"Foo">>, "fn">>, <<<<"Bar">>, "mt">> >>,
      \* a full-name column beside a first-name column
      << <<<<"Name">>, "full">>, <<Sp(<<"First", "Name">>), "fn">>,
         <<Sp(<<"Member", "Type">>), "mt">>, <<<<"Coverage">>, "cov">>,
         <<Sp(<<"Work", "Status">>), "ws">> >>,
      \* a full-name column beside a last-name column
      << <<Sp(<<"Full", "Name">>), "full">>, <<Sp(<<"Last", "Name">>), "ln">>,
         <<<<"Relationship">>, "mt">> >>,
      \* no name column at all; two labels for the same field
      << <<<<"Member">>, "mt">>, <<<<"Coverage">>, "cov">>, <<<<"Zip">>, "wzip">>,
         <<Sp(<<"ZIP", "Code">>), "zip">>, <<<<"Sex">>, "gender">> >> }

RawTable(layout, rows) ==
    [ columns |-> [c \in 1..Len(layout) |-> layout[c][1]],
      index |-> RangeIndex(Len(rows)),
      data |-> [c \in 1..Len(layout) |-> [r \in 1..Len(rows) |-> rows[r][layout[c][2]]]] ]

(***************************************************************************)
(* normalize_and_validate  (amplify_census_input.py 268-374), stage by     *)
(* stage, and export_to_aetna_afa  (export_aetna_afa.py 78-132).           *)
(***************************************************************************)
Init ==
    /\ pc = "start"
    /\ arg = << >>
    /\ ret = << >>
    /\ raw = EmptyFrame
    /\ mapping = << >>
    /\ df = EmptyFrame
    /\ split_warnings = << >>
    /\ status_issues = << >>
    /\ issues = << >>
    /\ med = << >>
    /\ total_employees = 0
    /\ total_enrolled = 0
    /\ out = << >>

PipelineIdle ==
    /\ raw = EmptyFrame
    /\ mapping = << >>
    /\ df = EmptyFrame
    /\ split_warnings = << >>
    /\ status_issues = << >>
    /\ issues = << >>
    /\ med = << >>
    /\ total_employees = 0
    /\ total_enrolled = 0
    /\ out = << >>

\* raw = load_any(input_data): the first sheet as a frame with the default index
Load ==
    /\ pc = "start"
    /\ \E layout \in Layouts, rows \in SeqsUpTo(RowProfiles, MaxRows) :
          raw' = RawTable(layout, rows)
    /\ pc' = "loaded"
    /\ UNCHANGED <<arg, ret, mapping, df, split_warnings, status_issues, issues,
                   med, total_employees, total_enrolled, out>>

\* for src_col, std_col in mapping.items(): df[std_col] = raw[src_col]
RECURSIVE CopyMapped(_, _, _)
CopyMapped(frame, m, source) ==
    IF m = << >> THEN frame
    ELSE CopyMapped(SetColumn(frame, m[1][2], source.data[m[1][1]], source.index),
                    Tail(m), source)

ResolveColumns ==
    /\ pc = "loaded"
    /\ mapping' = _pick_cols(raw.columns)
    /\ df' = CopyMapped(EmptyFrame, _pick_cols(raw.columns), raw)
    /\ pc' = "resolved"
    /\ UNCHANGED <<arg, ret, raw, split_warnings, status_issues, issues,
                   med, total_employees, total_enrolled, out>>

IssueRecord(row, first, last, msg) ==
    [Row |-> row, FirstName |-> first, LastName |-> last, Issues |-> msg]

\* The mutant of RowNumber: a one-based position, no header offset
RowNumber_no_header(idx) == idx + 1

\* idx + 2: the spreadsheet row of the row labelled idx (row 1 is the header)
RowNumber(idx) == idx + 2

\* the name to split of one Full Name cell
FullNameText(val) == IF isna(val) THEN << >> ELSE PyStr(val)

\* the warnings of lines 287-292, in row order
RECURSIVE SplitWarnings(_, _, _)
SplitWarnings(cells, index, p) ==
    IF p > Len(cells) THEN << >>
    ELSE LET r == _split_full_name(FullNameText(cells[p]))
         IN  [w \in 1..Len(r[3]) |-> IssueRecord(RowNumber(index[p]), r[1], r[2], r[3][w])]
             \o SplitWarnings(cells, index, p + 1)

\* Variant: the full name is split as soon as one name column is missing.
ShouldSplit_either_missing(frame) ==
    ~HasCol(frame, "First Name") \/ ~HasCol(frame, "Last Name")

\* "First Name" not in df.columns and "Last Name" not in df.columns
ShouldSplit(frame) ==
    ~HasCol(frame, "First Name") /\ ~HasCol(frame, "Last Name")

SplitNames ==
    /\ pc = "resolved"
    /\ IF HasCol(df, "Full Name")
       THEN IF ShouldSplit(df)
            THEN LET cells == df.data["Full Name"]
                     firsts == [p \in 1..Len(cells) |->
                                   StrCell(_split_full_name(FullNameText(cells[p]))[1])]
                     lasts == [p \in 1..Len(cells) |->
                                   StrCell(_split_full_name(FullNameText(cells[p]))[2])]
                     withFirst == SetColumn(df, "First Name", firsts, df.index)
                     withLast == SetColumn(withFirst, "Last Name", lasts, df.index)
                 IN  /\ split_warnings' = SplitWarnings(cells, df.index, 1)
                     /\ df' = DropColumn(withLast, "Full Name")
            ELSE /\ split_warnings' = << >>
                 /\ df' = DropColumn(df, "Full Name")
       ELSE /\ split_warnings' = << >>
            /\ df' = df
    /\ pc' = "split"
    /\ UNCHANGED <<arg, ret, raw, mapping, status_issues, issues,
                   med, total_employees, total_enrolled, out>>

\* for col in STANDARD_COLS: if col not in df.columns: df[col] = "";  df[STANDARD_COLS]
_ensure_all_cols(frame) ==
    LET RECURSIVE Fill(_, _)
        Fill(f, k) == IF k > Len(STANDARD_COLS) THEN f
                      ELSE Fill(IF HasCol(f, STANDARD_COLS[k]) THEN f
                                ELSE SetScalar(f, STANDARD_COLS[k], StrCell(<< >>)), k + 1)
        filled == Fill(frame, 1)
    IN  [ columns |-> STANDARD_COLS,
          index |-> filled.index,
          data |-> [c \in {STANDARD_COLS[k] : k \in 1..Len(STANDARD_COLS)} |-> filled.data[c]] ]

\* the normalizer of each standard column (lines 302-310, 316)
NormCell(c, val) ==
    CASE c = "Gender" -> _norm_gender(val)
      [] c = "Date of Birth" -> _norm_dob(val)
      [] c \in {"Home Zip Code", "Work Zip"} -> _norm_zip(val)
      [] c = "Member Type" -> _norm_member(val)
      [] c = "Coverage Tier" -> _norm_coverage(val)
      [] c = "Work Status" -> _norm_status(val)[1]
      [] OTHER -> norm_text(val)

\* the Work Status warnings of lines 315-324, in row order
RECURSIVE StatusIssues(_, _, _)
StatusIssues(before, after, p) ==
    IF p > NRows(before) THEN << >>
    ELSE LET msg == _norm_status(before.data["Work Status"][p])[2]
             idx == before.index[p]
             at == PosOf(before.index, idx)
         IN  (IF msg # << >>
              THEN <<IssueRecord(RowNumber(idx), after.data["First Name"][at],
                                 after.data["Last Name"][at], msg)>>
              ELSE << >>)
             \o StatusIssues(before, after, p + 1)

NormalizeFields ==
    /\ pc = "split"
    /\ LET all == _ensure_all_cols(df)
           normalized == [ columns |-> all.columns,
                           index |-> all.index,
                           data |-> [c \in DOMAIN all.data |->
                                       [p \in 1..Len(all.data[c]) |-> NormCell(c, all.data[c][p])]] ]
       IN  /\ df' = normalized
           /\ status_issues' = StatusIssues(all, normalized, 1)
    /\ pc' = "normalized"
    /\ UNCHANGED <<arg, ret, raw, mapping, split_warnings, issues,
                   med, total_employees, total_enrolled, out>>

\* the cell of column c in the row at position p
Cell(frame, p, c) == frame.data[c][p]

MEMBER_CODES == {<<"EE">>, <<"SP">>, <<"CH">>}

\* The mutant of row_issues: the rules chained, only the first failing one reported
row_issues_first_only(frame, p) ==
    IF Cell(frame, p, "First Name") = << >> THEN <<<<"Missing First Name">>>>
    ELSE IF Cell(frame, p, "Last Name") = << >> THEN <<<<"Missing Last Name">>>>
    ELSE IF Cell(frame, p, "Member Type") \notin MEMBER_CODES
         THEN <<<<"Member Type must be EE/SP/CH">>>>
    ELSE IF Cell(frame, p, "Member Type") = <<"EE">> /\ Cell(frame, p, "Date of Birth") = << >>
         THEN <<<<"Subscriber missing DOB">>>>
    ELSE IF Cell(frame, p, "Member Type") = <<"EE">> /\ Cell(frame, p, "Home Zip Code") = << >>
         THEN <<<<"Subscriber missing Home Zip">>>>
    ELSE IF Cell(frame, p, "Member Type") # <<"EE">> /\ Cell(frame, p, "Work Status") # << >>
         THEN <<<<"Work Status should be blank for non-EE">>>>
    ELSE << >>

\* the messages of the rules the row at position p fails, in rule order (lines 332-357)
row_issues(frame, p) ==
    (IF Cell(frame, p, "First Name") = << >> THEN <<<<"Missing First Name">>>> ELSE << >>)
    \o (IF Cell(frame, p, "Last Name") = << >> THEN <<<<"Missing Last Name">>>> ELSE << >>)
    \o (IF Cell(frame, p, "Member Type") \notin MEMBER_CODES
        THEN <<<<"Member Type must be EE/SP/CH">>>> ELSE << >>)
    \o (IF Cell(frame, p, "Coverage Tier") \notin COVERAGE_CODES \cup {<< >>}
        THEN <<<<"Coverage Tier invalid">>>> ELSE << >>)
    \o (IF Cell(frame, p, "Member Type") = <<"EE">> /\ Cell(frame, p, "Date of Birth") = << >>
        THEN <<<<"Subscriber missing DOB">>>> ELSE << >>)
    \o (IF Cell(frame, p, "Member Type") = <<"EE">> /\ Cell(frame, p, "Home Zip Code") = << >>
        THEN <<<<"Subscriber missing Home Zip">>>> ELSE << >>)
    \o (IF Cell(frame, p, "Member Type") # <<"EE">> /\ Cell(frame, p, "Work Status") # << >>
        THEN <<<<"Work Status should be blank for non-EE">>>> ELSE << >>)

\* the row-validation records of lines 331-365, in row order
RECURSIVE ValidationIssues(_, _)
ValidationIssues(frame, p) ==
    IF p > NRows(frame) THEN << >>
    ELSE (IF row_issues(frame, p) # << >>
          THEN <<IssueRecord(RowNumber(frame.index[p]), Cell(frame, p, "First Name"),
                             Cell(frame, p, "Last Name"), Join(row_issues(frame, p), <<"; ">>))>>
          ELSE << >>)
         \o ValidationIssues(frame, p + 1)

\* The mutant of AssembleIssues: the Work Status warnings ahead of the row issues
AssembleIssues_status_first(split, validation, status) == split \o status \o validation

\* issues.extend(split_warnings); the row loop; issues.extend(status_issues)
AssembleIssues(split, validation, status) == split \o validation \o status

Validate ==
    /\ pc = "normalized"
    /\ issues' = AssembleIssues(split_warnings, ValidationIssues(df, 1), status_issues)
    /\ pc' = "validated"
    /\ UNCHANGED <<arg, ret, raw, mapping, df, split_warnings, status_issues,
                   med, total_employees, total_enrolled, out>>

AETNA_TIER_MAP ==
    { <<<<"EE">>, <<"EEOnly">>>>, <<<<"ES">>, <<"EESpOnly">>>>, <<<<"EC">>, <<"EEChren">>>>,
      <<<<"FAM">>, <<"EEFamily">>>>, <<<<"WO">>, <<"Waive">>>> }

HEADERS_OUT ==
    << "Last Name", "First Name", "Home Zip Code", "Date of Birth", "Gender", "Medical Tier",
       "Dental Tier", "Member Type", "Subscriber Employment Status", "" >>

\* The mutant of NextSubTier: a subscriber without a carrier tier keeps the last one
NextSubTier_keep_last(t, last_sub_tier) == IF t = << >> THEN last_sub_tier ELSE t

\* last_sub_tier = t
NextSubTier(t, last_sub_tier) == t

\* the forward pass of lines 90-98 from row p on, last_sub_tier carried along
RECURSIVE MedicalTiers(_, _, _)
MedicalTiers(frame, p, last_sub_tier) ==
    IF p > NRows(frame) THEN << >>
    ELSE IF Cell(frame, p, "Member Type") = <<"EE">>
    THEN LET t == DictGet(AETNA_TIER_MAP, Cell(frame, p, "Coverage Tier"), << >>)
         IN  <<t>> \o MedicalTiers(frame, p + 1, NextSubTier(t, last_sub_tier))
    ELSE <<last_sub_tier>> \o MedicalTiers(frame, p + 1, last_sub_tier)

\* (input_df["Member Type"] == "EE").sum()
CountEmployees(frame) ==
    Cardinality({p \in 1..NRows(frame) : Cell(frame, p, "Member Type") = <<"EE">>})

\* The mutant of CountWaived: every row whose Medical Tier is "Waive" counts
CountWaived_any_member(frame, tiers) ==
    Cardinality({p \in 1..NRows(frame) : tiers[p] = <<"Waive">>})

\* ((input_df["Member Type"] == "EE") & (pd.Series(med) == "Waive")).sum():
\* the two Series are matched by row label, pd.Series(med) carrying 0 .. n-1
CountWaived(frame, tiers) ==
    LET labels == RangeIndex(Len(tiers))
    IN  Cardinality({p \in 1..NRows(frame) :
            /\ Cell(frame, p, "Member Type") = <<"EE">>
            /\ InList(labels, frame.index[p])
            /\ tiers[PosOf(labels, frame.index[p])] = <<"Waive">>})

Max(a, b) == IF a >= b THEN a ELSE b

\* one row of the carrier table (lines 106-120)
\* Variant: the employment status is copied for every member type.
OutRow_status_for_all(frame, p, tiers) ==
    [ LastName |-> Cell(frame, p, "Last Name"),
      FirstName |-> Cell(frame, p, "First Name"),
      HomeZipCode |-> Cell(frame, p, "Home Zip Code"),
      DateOfBirth |-> Cell(frame, p, "Date of Birth"),
      Gender |-> Cell(frame, p, "Gender"),
      MedicalTier |-> tiers[p],
      DentalTier |-> << >>,
      MemberType |-> Cell(frame, p, "Member Type"),
      SubscriberEmploymentStatus |-> Cell(frame, p, "Work Status"),
      Blank |-> << >> ]

OutRow(frame, p, tiers) ==
    [ LastName |-> Cell(frame, p, "Last Name"),
      FirstName |-> Cell(frame, p, "First Name"),
      HomeZipCode |-> Cell(frame, p, "Home Zip Code"),
      DateOfBirth |-> Cell(frame, p, "Date of Birth"),
      Gender |-> Cell(frame, p, "Gender"),
      MedicalTier |-> tiers[p],
      DentalTier |-> << >>,
      MemberType |-> Cell(frame, p, "Member Type"),
      SubscriberEmploymentStatus |->
          IF Cell(frame, p, "Member Type") = <<"EE">> THEN Cell(frame, p, "Work Status")
          ELSE << >>,
      Blank |-> << >> ]

\* convert_cached(norm_df, meta): export_to_aetna_afa on the normalized frame
Export ==
    /\ pc = "validated"
    /\ LET tiers == MedicalTiers(df, 1, << >>)
       IN  /\ med' = tiers
           /\ total_employees' = CountEmployees(df)
           /\ total_enrolled' = Max(CountEmployees(df) - CountWaived(df, tiers), 0)
           /\ out' = [p \in 1..NRows(df) |-> OutRow(df, p, tiers)]
    /\ pc' = "exported"
    /\ UNCHANGED <<arg, ret, raw, mapping, df, split_warnings, status_issues, issues>>

Next == Load \/ ResolveColumns \/ SplitNames \/ NormalizeFields \/ Validate \/ Export

Spec == Init /\ [][Next]_vars

(***************************************************************************)
(* Specifications of the pure field functions: the input is drawn in the   *)
(* initial state, the one action applies the function.                     *)
(***************************************************************************)
InitZip == pc = "call" /\ arg \in ZipInputs /\ ret = << >> /\ PipelineIdle

Call_norm_zip ==
    /\ pc = "call"
    /\ ret' = _norm_zip(arg)
    /\ pc' = "return"
    /\ UNCHANGED <<arg, pipeline_vars>>

SpecZip == InitZip /\ [][Call_norm_zip]_vars

InitCov == pc = "call" /\ arg \in CovInputs /\ ret = << >> /\ PipelineIdle

Call_norm_coverage ==
    /\ pc = "call"
    /\ ret' = _norm_coverage(arg)
    /\ pc' = "return"
    /\ UNCHANGED <<arg, pipeline_vars>>

SpecCov == InitCov /\ [][Call_norm_coverage]_vars

InitName == pc = "call" /\ arg \in NameInputs /\ ret = << >> /\ PipelineIdle

Call_split_full_name ==
    /\ pc = "call"
    /\ ret' = _split_full_name(arg)
    /\ pc' = "return"
    /\ UNCHANGED <<arg, pipeline_vars>>

SpecName == InitName /\ [][Call_split_full_name]_vars

InitMember == pc = "call" /\ arg \in MemberInputs /\ ret = << >> /\ PipelineIdle

Call_norm_member ==
    /\ pc = "call"
    /\ ret' = _norm_member(arg)
    /\ pc' = "return"
    /\ UNCHANGED <<arg, pipeline_vars>>

SpecMember == InitMember /\ [][Call_norm_member]_vars

(***************************************************************************)
(* Properties.                                                             *)
(***************************************************************************)
Normalized == pc \in {"normalized", "validated", "exported"}

Validated == pc \in {"validated", "exported"}

Exported == pc = "exported"

MemberType(p) == Cell(df, p, "Member Type")

CoverageTier(p) == Cell(df, p, "Coverage Tier")

IsEE(p) == MemberType(p) = <<"EE">>

\* the carrier mapping as the claim C1 lists it
CarrierTierOf(tier) ==
    CASE tier = <<"EE">> -> <<"EEOnly">>
      [] tier = <<"ES">> -> <<"EESpOnly">>
      [] tier = <<"EC">> -> <<"EEChren">>
      [] tier = <<"FAM">> -> <<"EEFamily">>
      [] tier = <<"WO">> -> <<"Waive">>
      [] OTHER -> << >>

\* C1: the Medical Tier of an EE row is the carrier mapping of its Coverage
\* Tier; the Medical Tier of any other row is that of the nearest EE row
\* before it, and empty when no EE row precedes it.
C1_MedicalTierFromNearestSubscriber ==
    Exported =>
        /\ Len(med) = NRows(df)
        /\ \A p \in 1..NRows(df) :
              LET before == {q \in 1..(p - 1) : IsEE(q)}
              IN  med[p] = IF IsEE(p) THEN CarrierTierOf(CoverageTier(p))
                           ELSE IF before = {} THEN << >>
                           ELSE med[SetMax(before)]

\* C1 witness: a subscriber without a carrier tier, after one with a tier,
\* resets the tier the next dependent inherits to empty.
C1_Witness_TierReset ==
    /\ Exported
    /\ \E p, q, r \in 1..NRows(df) :
          /\ p < q /\ q < r
          /\ IsEE(p) /\ med[p] = <<"EEFamily">>
          /\ IsEE(q) /\ med[q] = << >>
          /\ ~IsEE(r) /\ med[r] = << >>

\* C2: total_employees counts the EE rows, total_enrolled is that count less
\* the EE rows whose Medical Tier is "Waive", so 0 <= total_enrolled <=
\* total_employees; rows that are not EE change neither total.
C2_TotalsCountSubscribersOnly ==
    Exported =>
        LET employees == {p \in 1..NRows(df) : IsEE(p)}
            waived == {p \in employees : med[p] = <<"Waive">>}
        IN  /\ total_employees = Cardinality(employees)
            /\ total_enrolled = total_employees - Cardinality(waived)
            /\ 0 <= total_enrolled
            /\ total_enrolled <= total_employees

\* C2 witness: a waived subscriber and a dependent that inherited "Waive"
\* beside an enrolled subscriber: two employees, one enrolled.
C2_Witness_WaivedWithDependent ==
    /\ Exported
    /\ total_employees = 2
    /\ total_enrolled = 1
    /\ \E p \in 1..NRows(df) : IsEE(p) /\ CoverageTier(p) = <<"WO">>
    /\ \E p \in 1..NRows(df) : ~IsEE(p) /\ med[p] = <<"Waive">>

\* the source column a standard field was last copied from, 0 when there is none
SourceOf(std) ==
    LET hits == {k \in 1..Len(mapping) : mapping[k][2] = std}
    IN  IF hits = {} THEN 0 ELSE mapping[SetMax(hits)][1]

\* the standard fields that get their cells from the raw table
Supplied(std) ==
    \/ SourceOf(std) # 0
    \/ /\ std \in {"First Name", "Last Name"}
       /\ SourceOf("Full Name") # 0
       /\ SourceOf("First Name") = 0
       /\ SourceOf("Last Name") = 0

\* C3: the canonical table has one record per raw row, in raw-row order, with
\* exactly the ten standard fields in their fixed order, and a field without
\* a source column is empty in every record, also when no label resolves.
C3_OneCanonicalRecordPerRawRow ==
    Normalized =>
        /\ NRows(df) = NRows(raw)
        /\ df.columns = STANDARD_COLS
        /\ DOMAIN df.data = {STANDARD_COLS[k] : k \in 1..Len(STANDARD_COLS)}
        /\ \A k \in 1..Len(STANDARD_COLS) :
              LET c == STANDARD_COLS[k]
              IN  /\ Len(df.data[c]) = NRows(raw)
                  /\ ~Supplied(c) => \A p \in 1..NRows(raw) : df.data[c][p] = << >>
                  /\ (SourceOf(c) # 0 /\ c # "Work Status") =>
                        \A p \in 1..NRows(raw) :
                            df.data[c][p] = NormCell(c, raw.data[SourceOf(c)][p])

\* the kinds of issue record, told apart by their message
IsStatusRecord(r) ==
    r.Issues # << >> /\ r.Issues[1] = "Ignored non-supported Work Status '"

IsSplitRecord(r) == r.Issues \in {WARN_EMPTY_FIRST, WARN_SINGLE_TOKEN, WARN_SUFFIX_ONLY}

IsValidationRecord(r) == ~IsStatusRecord(r) /\ ~IsSplitRecord(r)

\* C4: in the issues table every row-validation record comes before every
\* Work Status warning, and within each of the two groups the records are in
\* increasing row order.
C4_ValidationThenStatusInRowOrder ==
    Validated =>
        \A i, j \in 1..Len(issues) :
            i < j =>
                /\ ~(IsStatusRecord(issues[i]) /\ IsValidationRecord(issues[j]))
                /\ (IsValidationRecord(issues[i]) /\ IsValidationRecord(issues[j]))
                      => issues[i].Row < issues[j].Row
                /\ (IsStatusRecord(issues[i]) /\ IsStatusRecord(issues[j]))
                      => issues[i].Row < issues[j].Row

\* C4 witness: a Work Status warning of an earlier row stands after the
\* row-validation record of a later row.
C4_Witness_NoCrossSorting ==
    /\ Validated
    /\ \E i, j \in 1..Len(issues) :
          /\ i < j
          /\ IsValidationRecord(issues[i])
          /\ IsStatusRecord(issues[j])
          /\ issues[j].Row < issues[i].Row

\* the seven rules as the claim C5 lists them
RuleMessage(k) ==
    CASE k = 1 -> <<"Missing First Name">>
      [] k = 2 -> <<"Missing Last Name">>
      [] k = 3 -> <<"Member Type must be EE/SP/CH">>
      [] k = 4 -> <<"Coverage Tier invalid">>
      [] k = 5 -> <<"Subscriber missing DOB">>
      [] k = 6 -> <<"Subscriber missing Home Zip">>
      [] OTHER -> <<"Work Status should be blank for non-EE">>

RuleFails(k, p) ==
    CASE k = 1 -> Cell(df, p, "First Name") = << >>
      [] k = 2 -> Cell(df, p, "Last Name") = << >>
      [] k = 3 -> MemberType(p) \notin {<<"EE">>, <<"SP">>, <<"CH">>}
      [] k = 4 -> CoverageTier(p) \notin {<<"EE">>, <<"EC">>, <<"ES">>, <<"FAM">>, <<"WO">>, << >>}
      [] k = 5 -> IsEE(p) /\ Cell(df, p, "Date of Birth") = << >>
      [] k = 6 -> IsEE(p) /\ Cell(df, p, "Home Zip Code") = << >>
      [] OTHER -> ~IsEE(p) /\ Cell(df, p, "Work Status") # << >>

FailedRules(p) == SelectSeq(<<1, 2, 3, 4, 5, 6, 7>>, LAMBDA k : RuleFails(k, p))

ExpectedRowMessage(p) ==
    Join([n \in 1..Len(FailedRules(p)) |-> RuleMessage(FailedRules(p)[n])], <<"; ">>)

\* the records of one kind that report the row at position p (Row = p - 1 + 2)
ValidationRecordsOf(p) ==
    SelectSeq(issues, LAMBDA r : IsValidationRecord(r) /\ r.Row = p + 1)

StatusRecordsOf(p) ==
    SelectSeq(issues, LAMBDA r : IsStatusRecord(r) /\ r.Row = p + 1)

SplitRecordsOf(p) ==
    SelectSeq(issues, LAMBDA r : IsSplitRecord(r) /\ r.Row = p + 1)

\* C5: a canonical row has at most one row-validation record, has one exactly
\* when it fails at least one of the seven rules, and the record's message is
\* the "; "-join of the messages of all the failing rules in rule order.
C5_OneRecordJoiningFailedRules ==
    Validated =>
        \A p \in 1..NRows(df) :
            /\ Len(ValidationRecordsOf(p)) <= 1
            /\ Len(ValidationRecordsOf(p)) = 1 <=> \E k \in 1..7 : RuleFails(k, p)
            /\ Len(ValidationRecordsOf(p)) = 1 =>
                  /\ ValidationRecordsOf(p)[1].Issues = ExpectedRowMessage(p)
                  /\ ValidationRecordsOf(p)[1].FirstName = Cell(df, p, "First Name")
                  /\ ValidationRecordsOf(p)[1].LastName = Cell(df, p, "Last Name")

\* C5 witness: a row that fails three rules at once beside a row that fails none.
C5_Witness_ThreeRulesJoined ==
    /\ Validated
    /\ \E p \in 1..NRows(df) :
          /\ Len(ValidationRecordsOf(p)) = 1
          /\ ValidationRecordsOf(p)[1].Issues =
                <<"Missing Last Name", "; ", "Subscriber missing DOB", "; ",
                  "Subscriber missing Home Zip">>
    /\ \E p \in 1..NRows(df) : Len(ValidationRecordsOf(p)) = 0

\* the raw Work Status cell of the row at position p (the column resolved)
RawStatus(p) == raw.data[SourceOf("Work Status")][p]

StatusMessageNaming(val) ==
    <<"Ignored non-supported Work Status '">> \o PyStr(val) \o <<"' (only Active/Cobra kept)">>

\* what C6 asks of one row, given whether its Work Status is one to ignore
StatusHandled(p, ignored) ==
    IF ignored
    THEN /\ Cell(df, p, "Work Status") = << >>
         /\ Len(StatusRecordsOf(p)) = 1
         /\ StatusRecordsOf(p)[1].Issues = StatusMessageNaming(RawStatus(p))
    ELSE Len(StatusRecordsOf(p)) = 0

\* C6 as stated: a raw Work Status that is non-empty and is not ACTIVE or
\* COBRA in any letter case is blanked and gets exactly one warning record of
\* its own naming the original value; every other row gets none.
C6_Original_NonEmptyStatusWarned ==
    (Validated /\ SourceOf("Work Status") # 0) =>
        \A p \in 1..NRows(df) :
            StatusHandled(p, /\ ~isna(RawStatus(p))
                             /\ PyStr(RawStatus(p)) # << >>
                             /\ Upper(PyStr(RawStatus(p))) \notin {<<"ACTIVE">>, <<"COBRA">>})

\* C6 as amended: the same, with the raw value taken after trimming its
\* surrounding whitespace: a whitespace-only value counts as empty and a
\* padded Active/Cobra as Active/Cobra.
C6_TrimmedStatusWarned ==
    /\ (Validated /\ SourceOf("Work Status") # 0) =>
          \A p \in 1..NRows(df) :
              StatusHandled(p, /\ ~isna(RawStatus(p))
                               /\ Strip(PyStr(RawStatus(p))) # << >>
                               /\ Upper(Strip(PyStr(RawStatus(p))))
                                     \notin {<<"ACTIVE">>, <<"COBRA">>})
    /\ (Validated /\ SourceOf("Work Status") = 0) =>
          \A i \in 1..Len(issues) : ~IsStatusRecord(issues[i])

\* C6 witness: a row with a Work Status warning and no row-validation record,
\* in a table that also holds a whitespace-only Work Status.
C6_Witness_WarningWithoutOtherIssue ==
    /\ Validated
    /\ SourceOf("Work Status") # 0
    /\ \E p \in 1..NRows(df) :
          /\ Len(StatusRecordsOf(p)) = 1
          /\ Len(ValidationRecordsOf(p)) = 0
          /\ StatusRecordsOf(p)[1].Issues =
                <<"Ignored non-supported Work Status '", "Retired", "' (only Active/Cobra kept)">>
    /\ \E p \in 1..NRows(df) :
          /\ RawStatus(p) = StrCell(<<" ", " ">>)
          /\ Len(StatusRecordsOf(p)) = 0

\* the name-split warnings the row at position p calls for
ExpectedSplitWarnings(p) ==
    IF SourceOf("Full Name") # 0 /\ SourceOf("First Name") = 0 /\ SourceOf("Last Name") = 0
    THEN Len(_split_full_name(FullNameText(raw.data[SourceOf("Full Name")][p]))[3])
    ELSE 0

ExpectedStatusWarnings(p) ==
    IF SourceOf("Work Status") # 0 /\ _norm_status(RawStatus(p))[2] # << >> THEN 1 ELSE 0

\* C7: every issue record, of whichever kind, carries Row = zero-based
\* position + 2: each record's Row is that of a row of the table, and the row
\* at zero-based position k has under Row = k + 2 exactly the records it calls
\* for; the first data row reports as Row = 2.
C7_RowIsPositionPlusTwo ==
    Validated =>
        /\ \A i \in 1..Len(issues) : issues[i].Row - 2 \in 0..(NRows(df) - 1)
        /\ \A p \in 1..NRows(df) :
              /\ Len(ValidationRecordsOf(p)) = (IF row_issues(df, p) # << >> THEN 1 ELSE 0)
              /\ Len(StatusRecordsOf(p)) = ExpectedStatusWarnings(p)
              /\ Len(SplitRecordsOf(p)) = ExpectedSplitWarnings(p)

\* C7 witness: the first data row reports a name-split warning, a
\* row-validation record and a Work Status warning, all three as Row 2,
\* and a later row reports as Row 4.
C7_Witness_FirstRowIsRowTwo ==
    /\ Validated
    /\ NRows(df) = 3
    /\ \E i, j, k \in 1..Len(issues) :
          /\ IsSplitRecord(issues[i]) /\ issues[i].Row = 2
          /\ IsValidationRecord(issues[j]) /\ issues[j].Row = 2
          /\ IsStatusRecord(issues[k]) /\ issues[k].Row = 2
    /\ \E i \in 1..Len(issues) : issues[i].Row = 4
    /\ \A i \in 1..Len(issues) : issues[i].Row # 3

\* s with every "&" replaced by rep
RECURSIVE ReplaceEachAmp(_, _)
ReplaceEachAmp(s, rep) ==
    IF s = << >> THEN << >>
    ELSE (IF s[1] = "&" THEN rep ELSE <<s[1]>>) \o ReplaceEachAmp(Tail(s), rep)

PlusSpellings == { <<"+">>, <<" ", "+">>, <<"+", " ">>, <<" ", "+", " ">> }

\* C8: writing "+", with or without blanks around it, for every "&" of a
\* Coverage Tier value does not change what _norm_coverage returns.
C8_AmpersandSameAsPlus ==
    (pc = "return" /\ arg.t = "str") =>
        \A rep \in PlusSpellings :
            _norm_coverage(StrCell(ReplaceEachAmp(arg.s, rep))) = ret

\* The part of C8 the code does keep: blanks around a "+" do not matter.
C8_PlusSpacingIrrelevant ==
    (pc = "return" /\ arg.t = "str" /\ ~Contains(arg.s, "&")) =>
        \A rep \in PlusSpellings :
            LET RECURSIVE Respell(_)
                Respell(s) == IF s = << >> THEN << >>
                              ELSE (IF s[1] = "+" THEN rep ELSE <<s[1]>>) \o Respell(Tail(s))
            IN  _norm_coverage(StrCell(Respell(arg.s))) = ret

\* the text of the ZIP cell of the call, and the number a numeric cell holds
IsNumeric(val) == val.t \in {"int", "float"}

ZipOfDigits(digits) == IF digits = << >> THEN << >> ELSE Prefix(Zfill(digits, 5), 5)

ZipShape(z) == z = << >> \/ (Len(z) = 5 /\ \A i \in 1..5 : IsDigit(z[i]))

\* C9: _norm_zip returns the empty string or exactly five digits, namely the
\* digits of the text before the first hyphen zero-padded to five and cut to
\* five; and a number of fewer than five digits comes back as that number
\* zero-padded to five digits.
C9_ZipFiveDigitsAndNumbersPadded ==
    (pc = "return" /\ ~isna(arg)) =>
        LET text == Strip(PyStr(arg))
            head == IF Contains(text, "-") THEN BeforeFirst(text, "-") ELSE text
        IN  /\ ZipShape(ret)
            /\ ret = ZipOfDigits(SelectSeq(head, IsDigit))
            /\ (IsNumeric(arg) /\ Len(arg.s) < 5) => ret = Zfill(arg.s, 5)

\* The part of C9 the code does keep: everything but the float cells.
C9_ZipFiveDigitsOfText ==
    /\ (pc = "return" /\ isna(arg)) => ret = << >>
    /\ (pc = "return" /\ ~isna(arg)) =>
          LET text == Strip(PyStr(arg))
              head == IF Contains(text, "-") THEN BeforeFirst(text, "-") ELSE text
          IN  /\ ZipShape(ret)
              /\ ret = ZipOfDigits(SelectSeq(head, IsDigit))
              /\ (arg.t = "int" /\ Len(arg.s) < 5) => ret = Zfill(arg.s, 5)

\* the tokens of a name tail that are not suffix tokens, then those that are
NonSuffixThenSuffix(tokens) ==
    SelectSeq(tokens, LAMBDA t : ~IsSuffixToken(t)) \o SelectSeq(tokens, IsSuffixToken)

\* C10: _split_full_name applies its rules in priority order: blank input;
\* then the comma rule whenever there is a comma; then the single token; then
\* several tokens.  A warning comes in exactly three cases: nothing after the
\* comma, a single token, a tail of suffix tokens alone.
C10_SplitRulesInPriorityOrder ==
    pc = "return" =>
        LET s == Strip(arg)
            first == ret[1]
            last == ret[2]
            warnings == ret[3]
            toks == SplitWs(s)
        IN  /\ s = << >> => ret = << << >>, << >>, << >> >>
            /\ (s # << >> /\ Contains(s, ",")) =>
                  LET last_part == Strip(BeforeFirst(s, ","))
                      after == SplitWs(AfterFirst(s, ","))
                  IN  IF after = << >>
                      THEN ret = << << >>, last_part, <<WARN_EMPTY_FIRST>> >>
                      ELSE /\ first = after[1]
                           /\ last = Join(<<last_part>> \o NonSuffixThenSuffix(Tail(after)), <<" ">>)
                           /\ warnings = << >>
            /\ (s # << >> /\ ~Contains(s, ",") /\ Len(toks) = 1) =>
                  ret = << << >>, toks[1], <<WARN_SINGLE_TOKEN>> >>
            /\ (s # << >> /\ ~Contains(s, ",") /\ Len(toks) > 1) =>
                  /\ first = toks[1]
                  /\ last = Join(NonSuffixThenSuffix(Tail(toks)), <<" ">>)
                  /\ warnings = IF \A n \in 2..Len(toks) : IsSuffixToken(toks[n])
                                THEN <<WARN_SUFFIX_ONLY>> ELSE << >>
            /\ Len(warnings) <= 1

\* C10 witness: a comma name whose tail has a suffix token before a middle
\* token: the last name takes the middle token first.
C10_Witness_CommaWithSuffixAndMiddle ==
    /\ pc = "return"
    /\ arg = <<"Lee", ",", "Ann", " ", "Jr", " ", "Lee">>
    /\ ret = << <<"Ann">>, <<"Lee", " ", "Lee", " ", "Jr">>, << >> >>

\* The 17 alias spellings of the three member codes, upper-cased.
EmployeeSpellings ==
    {<<"EE">>, <<"E">>, <<"SUB">>, <<"SUBSCRIBER">>, <<"EMPLOYEE">>}

SpouseSpellings ==
    {<<"SP">>, <<"S">>, <<"SPOUSE">>, <<"DOMESTIC", " ", "PARTNER">>, <<"DP">>, <<"PARTNER">>}

ChildSpellings ==
    {<<"C">>, <<"CH">>, <<"CHILD">>, <<"CHILDREN">>, <<"KID">>, <<"DEPENDENT">>}

\* The text of the argument, trimmed and upper-cased; empty for a missing cell.
MemberKey == IF isna(arg) THEN << >> ELSE Upper(Strip(PyStr(arg)))

\* C11: _norm_member returns "" for a missing, empty or whitespace-only
\* value, the EE/SP/CH code of an alias spelling (trimmed, any case), and
\* "EE" for every other non-empty value; the result is always one of
\* EE, SP, CH or "".
C11_MemberAliasOrDefaultEE ==
    pc = "return" =>
        /\ Cardinality(EmployeeSpellings \cup SpouseSpellings \cup ChildSpellings) = 17
        /\ ret \in {<<"EE">>, <<"SP">>, <<"CH">>, << >>}
        /\ (MemberKey = << >>) => ret = << >>
        /\ (MemberKey \in EmployeeSpellings) => ret = <<"EE">>
        /\ (MemberKey \in SpouseSpellings) => ret = <<"SP">>
        /\ (MemberKey \in ChildSpellings) => ret = <<"CH">>
        /\ (MemberKey # << >>
            /\ MemberKey \notin EmployeeSpellings \cup SpouseSpellings \cup ChildSpellings)
           => ret = <<"EE">>

\* An unknown title defaults to "EE".
C11_Witness_UnknownDefaultsToEE ==
    /\ pc = "return"
    /\ arg = StrCell(<<" ", "Manager", " ">>)
    /\ ret = <<"EE">>

WorkStatus(p) == Cell(df, p, "Work Status")

\* C12: the carrier table has one row per canonical row, in the same
\* order; in every row Subscriber Employment Status is the row's Work Status
\* for an EE and empty otherwise, Dental Tier and the trailing blank column
\* are empty, and Last Name, First Name, Home Zip Code, Date of Birth, Gender
\* and Member Type are those of the canonical row.
C12_OutputRowsProjectCanonicalRows ==
    Exported =>
        /\ Len(out) = NRows(df)
        /\ \A p \in 1..NRows(df) :
               /\ out[p].SubscriberEmploymentStatus =
                      (IF MemberType(p) = <<"EE">> THEN WorkStatus(p) ELSE << >>)
               /\ out[p].DentalTier = << >>
               /\ out[p].Blank = << >>
               /\ out[p].LastName = Cell(df, p, "Last Name")
               /\ out[p].FirstName = Cell(df, p, "First Name")
               /\ out[p].HomeZipCode = Cell(df, p, "Home Zip Code")
               /\ out[p].DateOfBirth = Cell(df, p, "Date of Birth")
               /\ out[p].Gender = Cell(df, p, "Gender")
               /\ out[p].MemberType = MemberType(p)

\* An employee keeps "Active" while a spouse with status "Cobra" after it
\* is exported with an empty employment status.
C12_Witness_DependentStatusDropped ==
    /\ Exported
    /\ \E p, q \in 1..NRows(df) :
           /\ p < q
           /\ MemberType(p) = <<"EE">>
           /\ WorkStatus(p) = <<"Active">>
           /\ out[p].SubscriberEmploymentStatus = <<"Active">>
           /\ out[p].LastName # << >>
           /\ MemberType(q) = <<"SP">>
           /\ WorkStatus(q) = <<"Cobra">>
           /\ out[q].SubscriberEmploymentStatus = << >>

RawCoverage(p) == raw.data[SourceOf("Coverage Tier")][p]

\* C13: after the Normalize Fields stage every canonical row has a
\* Coverage Tier among EE, EC, ES, FAM, WO and "", whatever the raw cell
\* held, and no record of the issues table carries the message
\* "Coverage Tier invalid".
C13_CoverageTierAlwaysValid ==
    /\ Normalized =>
           \A p \in 1..NRows(df) :
               CoverageTier(p) \in {<<"EE">>, <<"EC">>, <<"ES">>, <<"FAM">>, <<"WO">>, << >>}
    /\ Validated =>
           \A n \in 1..Len(issues) : ~Contains(issues[n].Issues, "Coverage Tier invalid")

\* A raw coverage cell "EE&family" matches no alias: the canonical value is
\* empty and the row's validation record reports other rules only.
C13_Witness_UnknownCoverageBlanked ==
    /\ Validated
    /\ Supplied("Coverage Tier")
    /\ \E p \in 1..NRows(df) :
           /\ RawCoverage(p) = StrCell(<<"EE", "&", "family">>)
           /\ CoverageTier(p) = << >>
           /\ ValidationRecordsOf(p) # << >>

Resolved(std) == SourceOf(std) # 0

RawCellOf(std, p) == raw.data[SourceOf(std)][p]

\* every raw row has a canonical row whose field `kept` is the trimmed text
\* of its own column, whose field `lost` is empty, and whose validation
\* record reports the message `missing`
FullNameDiscarded(kept, lost, missing) ==
    /\ split_warnings = << >>
    /\ \A n \in 1..Len(issues) : ~IsSplitRecord(issues[n])
    /\ NRows(df) = NRows(raw)
    /\ \A p \in 1..NRows(raw) :
           /\ Cell(df, p, kept) = norm_text(RawCellOf(kept, p))
           /\ Cell(df, p, lost) = << >>
           /\ Len(ValidationRecordsOf(p)) = 1
           /\ Contains(ValidationRecordsOf(p)[1].Issues, missing)

\* C14: a split warning exists only when a Full Name column was resolved
\* and neither First Name nor Last Name was; when Full Name was resolved
\* together with exactly one of First Name / Last Name, there is no split
\* warning, the resolved name field is that of its own column, the other
\* name field is empty in every canonical row, and every row reports
\* "Missing Last Name" / "Missing First Name" respectively.
C14_FullNameIgnoredBesideOneNameColumn ==
    Validated =>
        /\ (split_warnings # << >> \/ \E n \in 1..Len(issues) : IsSplitRecord(issues[n]))
               => (Resolved("Full Name") /\ ~Resolved("First Name") /\ ~Resolved("Last Name"))
        /\ (Resolved("Full Name") /\ Resolved("First Name") /\ ~Resolved("Last Name"))
               => FullNameDiscarded("First Name", "Last Name", "Missing Last Name")
        /\ (Resolved("Full Name") /\ Resolved("Last Name") /\ ~Resolved("First Name"))
               => FullNameDiscarded("Last Name", "First Name", "Missing First Name")

\* Beside a First Name column, the full name "Madonna" (which would raise a
\* single-token warning if split) is dropped: the row keeps first name "Bob",
\* has no last name and reports "Missing Last Name".
C14_Witness_FullNameDroppedSilently ==
    /\ Validated
    /\ Resolved("Full Name") /\ Resolved("First Name") /\ ~Resolved("Last Name")
    /\ split_warnings = << >>
    /\ \E p \in 1..NRows(raw) :
           /\ RawCellOf("Full Name", p) = StrCell(<<"Madonna">>)
           /\ Cell(df, p, "First Name") = <<"Bob">>
           /\ Cell(df, p, "Last Name") = << >>
           /\ Contains(ValidationRecordsOf(p)[1].Issues, "Missing Last Name")

====
